---- MODULE Spec2Model ----
(***************************************************************************)
(* Route Backend API (src/app.py): a Flask handler that validates a        *)
(* coordinate pair, asks an OSRM server for routes and answers with the    *)
(* route of minimum distance.                                              *)
(*                                                                         *)
(* JSON values are tagged records:                                         *)
(*   null  [t |-> "null"]            number [t |-> "num", n |-> 3]         *)
(*   bool  [t |-> "bool", b |-> TRUE]                                      *)
(*   string [t |-> "str", s |-> <<pieces>>]  (input strings: one piece per *)
(*                                            character)                   *)
(*   array [t |-> "arr", a |-> <<values>>]                                 *)
(*   object [t |-> "obj", o |-> <<[k |-> key, v |-> value], ...>>]         *)
(*          (members in document order, as a Python dict keeps them)       *)
(* A message body is [t |-> "text", x |-> v]: the text of JSON value v, or *)
(* of something that is not JSON (x = NotJson).                            *)
(***************************************************************************)
EXTENDS Integers, Sequences, FiniteSets, TLC

\* ------------------------------------------------------------------ bounds
MaxCoord == 2
MaxDist == 2
MaxRoutes == 3

\* ------------------------------------------------------------- JSON values
Null == [t |-> "null"]
Num(n) == [t |-> "num", n |-> n]
Bool(b) == [t |-> "bool", b |-> b]
Str(s) == [t |-> "str", s |-> s]
Arr(a) == [t |-> "arr", a |-> a]
Obj(o) == [t |-> "obj", o |-> o]
Member(k, v) == [k |-> k, v |-> v]
NotJson == [t |-> "notjson"]
Text(x) == [t |-> "text", x |-> x]

\* Python's float("inf"), the key of a route without a distance.
inf == [t |-> "inf"]

\* dict membership and lookup: `k in d`, d[k] (the last member of that name).
HasKey(d, k) == \E i \in 1..Len(d.o) : d.o[i].k = k
Lookup(d, k) == d.o[CHOOSE i \in 1..Len(d.o) :
                      /\ d.o[i].k = k
                      /\ \A j \in (i+1)..Len(d.o) : d.o[j].k # k].v

\* dict.get(k, default); dict.get(k) is dict.get(k, None).
dict_get(d, k, default) == IF HasKey(d, k) THEN Lookup(d, k) ELSE default

\* Python truthiness of a parsed JSON value (`x or y`, `not x`).
Truthy(v) ==
    CASE v.t = "null" -> FALSE
      [] v.t = "bool" -> v.b
      [] v.t = "num" -> v.n # 0
      [] v.t = "str" -> Len(v.s) > 0
      [] v.t = "arr" -> Len(v.a) > 0
      [] v.t = "obj" -> Len(v.o) > 0

\* str(v) inside an f-string, for the values a coordinate can unpack to.
PyStr(v) ==
    CASE v.t = "num" -> ToString(v.n)
      [] v.t = "str" -> IF Len(v.s) = 1 THEN v.s[1] ELSE "<str>"
      [] v.t = "null" -> "None"
      [] v.t = "bool" -> IF v.b THEN "True" ELSE "False"
      [] OTHER -> "<repr>"

\* ------------------------------------------------------------ configuration
\* os.environ.get("OSRM_ALTERNATIVES", "true"): the values the variable is
\* drawn from; Unset is the variable not being set.
Unset == "<unset>"
EnvAlternatives == {Unset, "true", "TRUE", "1", "yes", "Yes", "false", "0", "no", ""}

\* str.lower() on those values.
lower(s) ==
    CASE s = "TRUE" -> "true"
      [] s = "Yes" -> "yes"
      [] OTHER -> s

\* REQUEST_ALTERNATIVES as the module computes it at import.
parse_alternatives(env) ==
    lower(IF env = Unset THEN "true" ELSE env) \in {"1", "true", "yes"}

DefaultBase == "https://router.project-osrm.org"
DefaultTimeout == 15

\* --------------------------------------------------------------- validation
Raise == [ok |-> FALSE]

\* request.get_json(silent=True): None for a body that is not JSON.
get_json(req) == IF req.x = NotJson THEN Null ELSE req.x

\* `a, b = v`: v is iterated and must yield exactly two items. A list yields
\* its elements, a string its characters, a dict its keys; None, a number or
\* a boolean is not iterable.
Unpack(v) ==
    CASE v.t = "arr" ->
           IF Len(v.a) = 2 THEN [ok |-> TRUE, x |-> v.a[1], y |-> v.a[2]] ELSE Raise
      [] v.t = "str" ->
           IF Len(v.s) = 2
           THEN [ok |-> TRUE, x |-> Str(<<v.s[1]>>), y |-> Str(<<v.s[2]>>)]
           ELSE Raise
      [] v.t = "obj" ->
           IF Len(v.o) = 2
           THEN [ok |-> TRUE, x |-> Str(<<v.o[1].k>>), y |-> Str(<<v.o[2].k>>)]
           ELSE Raise
      [] OTHER -> Raise

\* Lines 106-113: data = get_json() or {}; lat1, lon1 = data["from"];
\* lat2, lon2 = data["to"], any exception caught. data["from"] raises on
\* anything that is not a dict holding the key.
unpack_body(req) ==
    LET parsed == get_json(req)
        data == IF Truthy(parsed) THEN parsed ELSE Obj(<<>>)
    IN  IF data.t # "obj" THEN Raise
        ELSE IF ~HasKey(data, "from") THEN Raise
        ELSE LET f == Unpack(Lookup(data, "from")) IN
             IF ~f.ok THEN Raise
             ELSE IF ~HasKey(data, "to") THEN Raise
             ELSE LET g == Unpack(Lookup(data, "to")) IN
                  IF ~g.ok THEN Raise
                  ELSE [ok |-> TRUE, lat1 |-> f.x, lon1 |-> f.y,
                        lat2 |-> g.x, lon2 |-> g.y]

\* Mutant of format_coords: the coordinates in the body's (lat, lon) order.
format_coords_latlon(lat1, lon1, lat2, lon2) ==
    <<PyStr(lat1), ",", PyStr(lon1), ";", PyStr(lat2), ",", PyStr(lon2)>>

\* Line 116: coords = f"{lon1},{lat1};{lon2},{lat2}", as its pieces.
format_coords(lat1, lon1, lat2, lon2) ==
    <<PyStr(lon1), ",", PyStr(lat1), ";", PyStr(lon2), ",", PyStr(lat2)>>

\* Lines 117-126: the URL (as its pieces) and the query parameters.
build_request(base, timeout, alternatives, c) ==
    [url |-> <<base, "/route/v1/driving/">>
               \o format_coords(c.lat1, c.lon1, c.lat2, c.lon2),
     params |-> [overview |-> "full",
                 geometries |-> "geojson",
                 steps |-> "false",
                 alternatives |-> IF alternatives THEN "true" ELSE "false"],
     timeout |-> timeout]

\* ---------------------------------------------------------------- responses
\* jsonify(obj), status
JsonResponse(status, obj) == [status |-> status, json |-> obj]

\* Flask's answer to an exception the view does not catch.
InternalServerError == [status |-> 500, json |-> Null]

BadRequest ==
    JsonResponse(400, Obj(<<Member("error",
        Str(<<"Body must include 'from' and 'to' as [lat, lon]">>))>>))

RequestFailed(e) ==
    JsonResponse(502, Obj(<<Member("error", Str(<<"OSRM request failed: ", e>>))>>))

ResponseError(r) ==
    JsonResponse(502, Obj(<<Member("error", Str(<<"OSRM response error">>)),
                            Member("status", Num(r.status_code)),
                            Member("body", r.text)>>))

NotFound == JsonResponse(404, Obj(<<Member("error", Str(<<"No route found">>))>>))

\* Mutant of RouteFound: distance_m read from the wrong member.
RouteFound_wrong_member(shortest) ==
    JsonResponse(200, Obj(<<Member("distance_m", dict_get(shortest, "duration", Null)),
                            Member("duration_s", dict_get(shortest, "duration", Null)),
                            Member("geometry", dict_get(shortest, "geometry", Null))>>))

\* Mutant of RouteFound: the geometry read under a member name OSRM does not use.
RouteFound_lost_geometry(shortest) ==
    JsonResponse(200, Obj(<<Member("distance_m", dict_get(shortest, "distance", Null)),
                            Member("duration_s", dict_get(shortest, "duration", Null)),
                            Member("geometry", dict_get(shortest, "geometries", Null))>>))

RouteFound(shortest) ==
    JsonResponse(200, Obj(<<Member("distance_m", dict_get(shortest, "distance", Null)),
                            Member("duration_s", dict_get(shortest, "duration", Null)),
                            Member("geometry", dict_get(shortest, "geometry", Null))>>))

\* ---------------------------------------------------------------- selection
Alphabet == <<"a", "b", "e", "n", "x">>
CharRank(c) == CHOOSE i \in 1..Len(Alphabet) : Alphabet[i] = c

IsNumber(v) == v.t \in {"num", "bool", "inf"}
NumberOf(v) == IF v.t = "bool" THEN (IF v.b THEN 1 ELSE 0) ELSE v.n

\* Python's `a < b` on key values: "true", "false", or "TypeError" where the
\* operand types do not order (None, dicts, a number against a string, ...).
\* Numbers (booleans and inf among them) order by value, strings and lists
\* lexicographically.
RECURSIVE py_lt(_, _)
py_lt(a, b) ==
    CASE IsNumber(a) /\ IsNumber(b) ->
           IF a.t = "inf" THEN "false"
           ELSE IF b.t = "inf" THEN "true"
           ELSE IF NumberOf(a) < NumberOf(b) THEN "true" ELSE "false"
      [] a.t = "str" /\ b.t = "str" ->
           LET D == {i \in 1..Len(a.s) : i > Len(b.s) \/ a.s[i] # b.s[i]} IN
           IF D = {} THEN (IF Len(a.s) < Len(b.s) THEN "true" ELSE "false")
           ELSE LET i == CHOOSE d \in D : \A e \in D : d <= e IN
                IF i > Len(b.s) THEN "false"
                ELSE IF CharRank(a.s[i]) < CharRank(b.s[i]) THEN "true" ELSE "false"
      [] a.t = "arr" /\ b.t = "arr" ->
           LET D == {i \in 1..Len(a.a) : i > Len(b.a) \/ a.a[i] # b.a[i]} IN
           IF D = {} THEN (IF Len(a.a) < Len(b.a) THEN "true" ELSE "false")
           ELSE LET i == CHOOSE d \in D : \A e \in D : d <= e IN
                IF i > Len(b.a) THEN "false" ELSE py_lt(a.a[i], b.a[i])
      [] OTHER -> "TypeError"

\* Mutant of min_scan: a later item of equal key replaces the running minimum.
RECURSIVE min_scan_last(_, _, _)
min_scan_last(keys, i, best) ==
    IF i > Len(keys) THEN best
    ELSE LET c == py_lt(keys[best], keys[i]) IN
         IF c = "TypeError" THEN 0
         ELSE IF c = "false" THEN min_scan_last(keys, i + 1, i)
         ELSE min_scan_last(keys, i + 1, best)

\* min(iterable, key=...) as CPython runs it: the first item is the running
\* minimum, and each later item replaces it only when its key is < the
\* running minimum's key. Returns the index chosen, 0 when a comparison raises.
RECURSIVE min_scan(_, _, _)
min_scan(keys, i, best) ==
    IF i > Len(keys) THEN best
    ELSE LET c == py_lt(keys[i], keys[best]) IN
         IF c = "TypeError" THEN 0
         ELSE IF c = "true" THEN min_scan(keys, i + 1, i)
         ELSE min_scan(keys, i + 1, best)

\* Line 143: min(routes, key=lambda rt: rt.get("distance", inf)) on a truthy
\* `routes`. Iterating a number or a boolean raises; a string or a dict
\* yields strings, which have no .get; so does every list item that is not
\* a dict.
shortest_of(routes) ==
    IF routes.t # "arr" THEN Raise
    ELSE IF \E i \in 1..Len(routes.a) : routes.a[i].t # "obj" THEN Raise
    ELSE LET keys == [i \in 1..Len(routes.a) |->
                         dict_get(routes.a[i], "distance", inf)]
             best == min_scan(keys, 2, 1)
         IN  IF best = 0 THEN Raise ELSE [ok |-> TRUE, v |-> routes.a[best]]

\* Mutant of answer: only a status of 400 or more counts as an upstream error.
answer_from_400(r) ==
    IF r.status_code >= 400 THEN ResponseError(r)
    ELSE IF r.text.x = NotJson THEN InternalServerError
    ELSE LET resp == r.text.x IN
         IF resp.t # "obj" THEN InternalServerError
         ELSE LET got == dict_get(resp, "routes", Null)
                  routes == IF Truthy(got) THEN got ELSE Arr(<<>>)
              IN  IF ~Truthy(routes) THEN NotFound
                  ELSE LET shortest == shortest_of(routes) IN
                       IF ~shortest.ok THEN InternalServerError
                       ELSE RouteFound(shortest.v)

\* Lines 134-149: the handler from the upstream response r on.
answer(r) ==
    IF r.status_code # 200 THEN ResponseError(r)
    ELSE IF r.text.x = NotJson THEN InternalServerError
    ELSE LET resp == r.text.x IN
         IF resp.t # "obj" THEN InternalServerError
         ELSE LET got == dict_get(resp, "routes", Null)
                  routes == IF Truthy(got) THEN got ELSE Arr(<<>>)
              IN  IF ~Truthy(routes) THEN NotFound
                  ELSE LET shortest == shortest_of(routes) IN
                       IF ~shortest.ok THEN InternalServerError
                       ELSE RouteFound(shortest.v)

\* ------------------------------------------------------------------ inputs
\* Request bodies. A coordinate value: a [lat, lon] pair of numbers, or one
\* of the other shapes a client can send under "from" or "to".
NumPair(a, b) == Arr(<<Num(a), Num(b)>>)
NumPairs == {NumPair(a, b) : a, b \in 1..MaxCoord}
OtherCoords ==
    { Arr(<<Num(1)>>),
      Arr(<<Num(1), Num(2), Num(1)>>),
      Arr(<<>>),
      Arr(<<Str(<<"n">>), Str(<<"e">>)>>),
      Arr(<<Null, Num(1)>>),
      Str(<<"a", "b">>),
      Str(<<"a">>),
      Obj(<<Member("lat", Num(1)), Member("lon", Num(2))>>),
      Obj(<<Member("lat", Num(1))>>),
      Num(1),
      Null }

FromTo(f, g) == Text(Obj(<<Member("from", f), Member("to", g)>>))

Bodies ==
    {FromTo(f, g) : f \in NumPairs, g \in {NumPair(1, 2), NumPair(2, 1)}}
    \cup {FromTo(f, NumPair(1, 2)) : f \in OtherCoords}
    \cup {FromTo(NumPair(2, 1), g) : g \in OtherCoords}
    \cup {FromTo(Str(<<"a", "b">>), Arr(<<>>))}
    \cup { Text(Obj(<<Member("from", NumPair(1, 2))>>)),
           Text(Obj(<<Member("to", NumPair(1, 2))>>)),
           Text(Obj(<<Member("origin", NumPair(1, 2)), Member("to", NumPair(2, 1))>>)),
           Text(Obj(<<>>)),
           Text(Arr(<<NumPair(1, 2), NumPair(2, 1)>>)),
           Text(Str(<<"a", "b">>)),
           Text(Num(1)),
           Text(Null),
           Text(NotJson) }

\* Upstream replies. A candidate route at position i of the reply: its
\* distance is drawn (or missing: NoDistance), its duration is i, and its
\* geometry follows the reply's shape.
NoDistance == [t |-> "missing"]
Distances == {Num(d) : d \in 1..MaxDist} \cup {Null, NoDistance}

Point(lon, lat) == Arr(<<Num(lon), Num(lat)>>)
LineString(points) ==
    Obj(<<Member("type", Str(<<"LineString">>)), Member("coordinates", Arr(points))>>)

\* "full": every candidate has a duration and a two-point geometry. "mixed":
\* by position, a geometry without points, a full candidate, a candidate
\* with neither duration nor geometry, a geometry whose point is not a pair.
Shapes == {"full", "mixed"}

Candidate(d, i, shape) ==
    Obj( (IF d = NoDistance THEN <<>> ELSE <<Member("distance", d)>>)
         \o (IF shape = "mixed" /\ i % 4 = 3 THEN <<>>
             ELSE <<Member("duration", Num(i)),
                    Member("geometry",
                        CASE shape = "mixed" /\ i % 4 = 1 -> LineString(<<>>)
                          [] shape = "mixed" /\ i % 4 = 0 -> LineString(<<Arr(<<Num(i)>>)>>)
                          [] OTHER -> LineString(<<Point(i, 1), Point(i, 2)>>))>>) )

DistanceLists == UNION {[1..n -> Distances] : n \in 1..MaxRoutes}

RouteLists ==
    {Arr([i \in DOMAIN ds |-> Candidate(ds[i], i, shape)]) :
        ds \in DistanceLists, shape \in Shapes}

Routes(v) == Text(Obj(<<Member("code", Str(<<"Ok">>)), Member("routes", v)>>))

\* Reply bodies without a usable route list.
OtherTexts ==
    { Text(NotJson),
      Text(Null),
      Text(Arr(<<>>)),
      Text(Str(<<"x">>)),
      Text(Obj(<<>>)),
      Text(Obj(<<Member("code", Str(<<"NoRoute">>))>>)),
      Routes(Null),
      Routes(Arr(<<>>)),
      Routes(Bool(FALSE)),
      Routes(Num(0)),
      Routes(Str(<<>>)),
      Routes(Num(1)),
      Routes(Bool(TRUE)),
      Routes(Str(<<"x">>)),
      Routes(Obj(<<Member("distance", Num(1))>>)),
      Routes(Arr(<<Num(1)>>)),
      Routes(Arr(<<Null>>)) }

Texts == OtherTexts \cup {Routes(l) : l \in RouteLists}

OtherStatuses == {204, 404, 500}
ErrorTexts ==
    { Text(NotJson),
      Routes(Arr(<<>>)),
      Routes(Arr(<<Candidate(Num(1), 1, "full")>>)) }

\* What requests.get raises (a RequestException), by its description.
Failures == {"ConnectionError", "ReadTimeout"}

Response(status_code, text) == [status_code |-> status_code, text |-> text]
Replies ==
    {Response(200, x) : x \in Texts}
    \cup {Response(c, x) : c \in OtherStatuses, x \in ErrorTexts}

\* ------------------------------------------------------------------- state
VARIABLES
    OSRM_BASE,             \* configuration, read at import
    TIMEOUT,
    REQUEST_ALTERNATIVES,
    pc,                    \* "idle", "waiting" (inside requests.get), "done"
    request,               \* the body of the request being handled
    sent,                  \* the request made to OSRM
    calls,                 \* how many times requests.get ran for this request
    upstream,              \* what requests.get gave
    response,              \* the handler's answer
    memo                   \* an earlier request, its upstream outcome and its answer

vars == <<OSRM_BASE, TIMEOUT, REQUEST_ALTERNATIVES, pc, request, sent, calls,
          upstream, response, memo>>
config == <<OSRM_BASE, TIMEOUT, REQUEST_ALTERNATIVES>>

NoRequest == Text([t |-> "none"])
NotSent == [url |-> <<>>]
NoOutcome == [kind |-> "none"]
NoResponse == [status |-> 0, json |-> Null]
NoMemo == [request |-> NoRequest]

Raised(e) == [kind |-> "raised", e |-> e]
Returned(r) == [kind |-> "returned", r |-> r]

Init ==
    /\ OSRM_BASE = DefaultBase
    /\ TIMEOUT = DefaultTimeout
    /\ \E env \in EnvAlternatives : REQUEST_ALTERNATIVES = parse_alternatives(env)
    /\ pc = "idle"
    /\ request = NoRequest
    /\ sent = NotSent
    /\ calls = 0
    /\ upstream = NoOutcome
    /\ response = NoResponse
    /\ memo = NoMemo

\* POST /route arrives with body b: lines 106-130, up to the call of
\* requests.get. A body that does not unpack is answered 400 at once.
Receive(b) ==
    /\ pc = "idle"
    /\ request' = b
    /\ LET c == unpack_body(b) IN
       IF c.ok
       THEN /\ sent' = build_request(OSRM_BASE, TIMEOUT, REQUEST_ALTERNATIVES, c)
            /\ calls' = calls + 1
            /\ pc' = "waiting"
            /\ response' = response
       ELSE /\ response' = BadRequest
            /\ pc' = "done"
            /\ UNCHANGED <<sent, calls>>
    /\ UNCHANGED <<config, upstream, memo>>

\* Mutant of GetRaises: after a failed call the process stops asking for
\* alternatives.
GetRaises_degrade(e) ==
    /\ pc = "waiting"
    /\ upstream' = Raised(e)
    /\ response' = RequestFailed(e)
    /\ pc' = "done"
    /\ REQUEST_ALTERNATIVES' = FALSE
    /\ UNCHANGED <<OSRM_BASE, TIMEOUT, request, sent, calls, memo>>

\* Mutant of GetRaises: the call is tried a second time before giving up.
GetRaises_retry(e) ==
    /\ pc = "waiting"
    /\ IF calls < 2
       THEN /\ calls' = calls + 1
            /\ UNCHANGED <<pc, upstream, response>>
       ELSE /\ upstream' = Raised(e)
            /\ response' = RequestFailed(e)
            /\ pc' = "done"
            /\ calls' = calls
    /\ UNCHANGED <<config, request, sent, memo>>

\* requests.get raises a RequestException: lines 131-132.
GetRaises(e) ==
    /\ pc = "waiting"
    /\ upstream' = Raised(e)
    /\ response' = RequestFailed(e)
    /\ pc' = "done"
    /\ UNCHANGED <<config, request, sent, calls, memo>>

\* requests.get returns r: lines 134-149.
GetReturns(r) ==
    /\ pc = "waiting"
    /\ upstream' = Returned(r)
    /\ response' = answer(r)
    /\ pc' = "done"
    /\ UNCHANGED <<config, request, sent, calls, memo>>

\* The answer is sent; the worker takes the next request.
Reset ==
    /\ pc' = "idle"
    /\ request' = NoRequest
    /\ sent' = NotSent
    /\ calls' = 0
    /\ upstream' = NoOutcome
    /\ response' = NoResponse
    /\ UNCHANGED config

Finish ==
    /\ pc = "done"
    /\ Reset
    /\ UNCHANGED memo

RouteRequest == \E b \in Bodies : Receive(b)
UpstreamFails == \E e \in Failures : GetRaises(e)
UpstreamReplies == \E r \in Replies : GetReturns(r)

Next == RouteRequest \/ UpstreamFails \/ UpstreamReplies \/ Finish

Spec == Init /\ [][Next]_vars

\* The same handler, watched over repeated requests: when a request is
\* answered, the request, what the upstream gave, the answer and the
\* configuration at that time may be kept in memo for comparison with a
\* later request.
Remember ==
    /\ pc = "done"
    /\ memo' = [request |-> request, upstream |-> upstream, sent |-> sent,
                response |-> response, config |-> config]
    /\ Reset

RepeatBodies ==
    { FromTo(NumPair(1, 2), NumPair(2, 1)),
      FromTo(Str(<<"a", "b">>), NumPair(1, 2)),
      FromTo(NumPair(1, 2), Num(1)) }

RepeatReplies ==
    { Response(200, Routes(Arr(<<Candidate(Num(2), 1, "full"),
                                 Candidate(Num(1), 2, "full"),
                                 Candidate(Num(1), 3, "full")>>))),
      Response(200, Routes(Arr(<<Candidate(Num(1), 1, "mixed"),
                                 Candidate(NoDistance, 2, "mixed")>>))),
      Response(200, Routes(Arr(<<>>))),
      Response(200, Text(NotJson)),
      Response(500, Text(NotJson)) }

RepeatRequest == \E b \in RepeatBodies : Receive(b)
RepeatReply == \E r \in RepeatReplies : GetReturns(r)

NextRepeat == RepeatRequest \/ UpstreamFails \/ RepeatReply \/ Finish \/ Remember

SpecRepeat == Init /\ [][NextRepeat]_vars

\* ------------------------------------------------------ what the claims use
\* The body is what the API documents: an object whose "from" and "to" are
\* two-element arrays of numbers.
IsNumPair(v) == v.t = "arr" /\ Len(v.a) = 2 /\ v.a[1].t = "num" /\ v.a[2].t = "num"
WellFormedBody(req) ==
    /\ req.x.t = "obj"
    /\ HasKey(req.x, "from") /\ IsNumPair(Lookup(req.x, "from"))
    /\ HasKey(req.x, "to") /\ IsNumPair(Lookup(req.x, "to"))

\* The body got past the handler's own check (lines 109-113).
PassedValidation == pc # "idle" /\ unpack_body(request).ok

Replied200 == upstream.kind = "returned" /\ upstream.r.status_code = 200
ReplyJson == upstream.r.text.x

\* The upstream answered 200 with an object whose "routes" is a non-empty
\* list of objects.
HasCandidates ==
    /\ Replied200
    /\ ReplyJson.t = "obj"
    /\ HasKey(ReplyJson, "routes")
    /\ Lookup(ReplyJson, "routes").t = "arr"
    /\ Len(Lookup(ReplyJson, "routes").a) >= 1
    /\ \A i \in 1..Len(Lookup(ReplyJson, "routes").a) :
           Lookup(ReplyJson, "routes").a[i].t = "obj"
Candidates == Lookup(ReplyJson, "routes").a

NumericDistances ==
    \A i \in 1..Len(Candidates) :
        HasKey(Candidates[i], "distance") /\ Lookup(Candidates[i], "distance").t = "num"
DistanceAt(i) == Lookup(Candidates[i], "distance").n

\* A candidate's member as the response carries it: null when it has none.
Carried(c, k) == dict_get(c, k, Null)

\* C1: a valid request whose upstream reply is 200 with N >= 1 candidates, each
\* with a numeric distance, is answered 200 with the first candidate (in
\* upstream order) whose distance is the minimum over all candidates;
\* distance_m is that minimum.
C1_FirstMinimum ==
    (pc = "done" /\ PassedValidation /\ HasCandidates /\ NumericDistances) =>
        /\ response.status = 200
        /\ \E i \in 1..Len(Candidates) :
              /\ \A j \in 1..Len(Candidates) : DistanceAt(i) <= DistanceAt(j)
              /\ \A j \in 1..(i - 1) : DistanceAt(j) > DistanceAt(i)
              /\ Lookup(response.json, "distance_m") = Num(DistanceAt(i))
              /\ Lookup(response.json, "duration_s") = Carried(Candidates[i], "duration")
              /\ Lookup(response.json, "geometry") = Carried(Candidates[i], "geometry")

\* Three candidates, 2 m, 1 m, 1 m: the minimum is tied and not first.
C1_Witness ==
    /\ pc = "done" /\ PassedValidation /\ HasCandidates /\ NumericDistances
    /\ Len(Candidates) = 3
    /\ DistanceAt(1) = 2 /\ DistanceAt(2) = 1 /\ DistanceAt(3) = 1
    /\ Lookup(response.json, "duration_s") = Num(2)

\* C5: every 200 answer is one candidate of the upstream reply: distance_m,
\* duration_s and geometry are that one candidate's distance, duration and
\* geometry (null for a member it does not have), all three from the same
\* candidate.
C5_OneCandidateVerbatim ==
    (pc = "done" /\ response.status = 200) =>
        /\ HasCandidates
        /\ \E i \in 1..Len(Candidates) :
              response.json =
                  Obj(<<Member("distance_m", Carried(Candidates[i], "distance")),
                        Member("duration_s", Carried(Candidates[i], "duration")),
                        Member("geometry", Carried(Candidates[i], "geometry"))>>)

\* Two candidates that differ in every member, the second one chosen.
C5_Witness ==
    /\ pc = "done" /\ response.status = 200 /\ HasCandidates
    /\ Len(Candidates) = 2
    /\ Candidates[1] # Candidates[2]
    /\ Lookup(response.json, "duration_s") = Num(2)
    /\ Lookup(response.json, "distance_m") = Num(1)

\* C3: a request that passed validation and whose upstream call raised is
\* answered 502 with an "error" that contains the failure's description; one
\* whose upstream answered any status but 200 is answered 502 with "error",
\* the upstream status under "status" and the raw upstream body under
\* "body", whatever that body holds.
C3_UpstreamFailure502 ==
    (pc = "done" /\ PassedValidation) =>
        /\ upstream.kind = "raised" =>
              /\ response.status = 502
              /\ HasKey(response.json, "error")
              /\ \E i \in 1..Len(Lookup(response.json, "error").s) :
                     Lookup(response.json, "error").s[i] = upstream.e
        /\ (upstream.kind = "returned" /\ upstream.r.status_code # 200) =>
              /\ response.status = 502
              /\ HasKey(response.json, "error")
              /\ HasKey(response.json, "status")
              /\ Lookup(response.json, "status") = Num(upstream.r.status_code)
              /\ HasKey(response.json, "body")
              /\ Lookup(response.json, "body") = upstream.r.text

\* The upstream answered 204 with a body that holds a route.
C3_Witness ==
    /\ pc = "done" /\ PassedValidation
    /\ upstream.kind = "returned" /\ upstream.r.status_code = 204
    /\ upstream.r.text = Routes(Arr(<<Candidate(Num(1), 1, "full")>>))
    /\ response.status = 502

\* A geometry as the API documents it: a non-empty coordinate list, every
\* point a pair of numbers.
WellFormedGeometry(g) ==
    /\ g.t = "obj"
    /\ HasKey(g, "coordinates")
    /\ Lookup(g, "coordinates").t = "arr"
    /\ Len(Lookup(g, "coordinates").a) >= 1
    /\ \A i \in 1..Len(Lookup(g, "coordinates").a) :
           IsNumPair(Lookup(g, "coordinates").a[i])

\* C6 as stated, read on the answers that carry a geometry at all (200): a
\* well-formed request is answered with a geometry whose coordinate list is
\* non-empty and whose points are pairs of numbers.
C6_GeometryAlwaysWellFormed ==
    (pc = "done" /\ WellFormedBody(request) /\ response.status = 200) =>
        WellFormedGeometry(Lookup(response.json, "geometry"))

\* C6 amended: a well-formed request answered 200 carries a geometry whose
\* coordinate list is non-empty with points that are pairs of numbers
\* whenever every candidate of the upstream reply has such a geometry.
C6_GeometryAsUpstream ==
    ( /\ pc = "done" /\ WellFormedBody(request) /\ response.status = 200
      /\ HasCandidates
      /\ \A i \in 1..Len(Candidates) :
             WellFormedGeometry(Carried(Candidates[i], "geometry")) ) =>
        WellFormedGeometry(Lookup(response.json, "geometry"))

C6_Witness ==
    /\ pc = "done" /\ WellFormedBody(request) /\ response.status = 200
    /\ HasCandidates
    /\ Len(Candidates) = 2
    /\ \A i \in 1..Len(Candidates) :
           WellFormedGeometry(Carried(Candidates[i], "geometry"))
    /\ WellFormedGeometry(Lookup(response.json, "geometry"))

\* "from" and "to" are two-element arrays.
IsPair(v) == v.t = "arr" /\ Len(v.a) = 2
PairBody(req) ==
    /\ req.x.t = "obj"
    /\ HasKey(req.x, "from") /\ IsPair(Lookup(req.x, "from"))
    /\ HasKey(req.x, "to") /\ IsPair(Lookup(req.x, "to"))

\* C7: for a body {"from": [lat1, lon1], "to": [lat2, lon2]} one request goes
\* upstream, to {base}/route/v1/driving/{lon1},{lat1};{lon2},{lat2} with
\* overview=full, geometries=geojson, steps=false, and alternatives=true
\* exactly when the alternatives setting is on.
C7_UpstreamRequest ==
    (pc # "idle" /\ PairBody(request)) =>
        LET f == Lookup(request.x, "from").a
            g == Lookup(request.x, "to").a
        IN  /\ calls = 1
            /\ sent.url = <<OSRM_BASE, "/route/v1/driving/",
                            PyStr(f[2]), ",", PyStr(f[1]), ";",
                            PyStr(g[2]), ",", PyStr(g[1])>>
            /\ sent.params.overview = "full"
            /\ sent.params.geometries = "geojson"
            /\ sent.params.steps = "false"
            /\ (sent.params.alternatives = "true") <=> REQUEST_ALTERNATIVES

\* From (lat 1, lon 2) to (lat 2, lon 1) with alternatives off.
C7_Witness ==
    /\ pc = "waiting"
    /\ request = FromTo(NumPair(1, 2), NumPair(2, 1))
    /\ ~REQUEST_ALTERNATIVES
    /\ sent.url = <<DefaultBase, "/route/v1/driving/", "2", ",", "1", ";", "1", ",", "2">>
    /\ sent.params.alternatives = "false"

\* C10: requests.get runs at most once per request and only for a body that
\* passed validation; an answer of 400 comes with no upstream call, and an
\* answer to a failed or route-less upstream call comes after exactly one.
C10_OneCallAfterValidation ==
    /\ calls <= 1
    /\ calls = 1 => PassedValidation
    /\ (pc = "done" /\ response.status = 400) => (calls = 0 /\ sent = NotSent)
    /\ (pc = "done" /\ response.status \in {404, 502}) => calls = 1

\* The upstream call raised and the request is answered.
C10_Witness ==
    /\ pc = "done" /\ upstream.kind = "raised"
    /\ calls = 1 /\ response.status = 502

\* C2: a body without "from" or "to", or whose "from" or "to" is not a
\* two-element array of numbers, is answered 400 with an "error", whatever
\* the upstream does.
C2_MalformedIs400 ==
    (pc = "done" /\ ~WellFormedBody(request)) =>
        (response.status = 400 /\ HasKey(response.json, "error"))

\* The upstream's reply is 200 with an object whose "routes" is absent, null
\* or an empty list.
NoRouteReply ==
    /\ Replied200
    /\ ReplyJson.t = "obj"
    /\ \/ ~HasKey(ReplyJson, "routes")
       \/ Lookup(ReplyJson, "routes") = Null
       \/ Lookup(ReplyJson, "routes") = Arr(<<>>)

\* C4: a well-formed request is answered 404 when the upstream's 200 reply
\* has no route list or an empty one, and no request is answered 404
\* otherwise.
C4_NotFoundExactly ==
    pc = "done" =>
        /\ (PassedValidation /\ NoRouteReply) => response.status = 404
        /\ response.status = 404 => (WellFormedBody(request) /\ NoRouteReply)

\* C9: every request ends answered 200, 400, 404 or 502.
C9_DocumentedStatuses ==
    pc = "done" => response.status \in {200, 400, 404, 502}

\* C8: a request handled again leaves the configuration as an earlier
\* request found it, and when the request and what the upstream gave are the
\* same as then, so are the upstream request made and the answer (status and
\* selected route).
C8_Idempotent ==
    memo # NoMemo =>
        /\ memo.config = config
        /\ (pc = "done" /\ memo.request = request /\ memo.upstream = upstream) =>
              (memo.response = response /\ memo.sent = sent)

\* The same request, with the same three candidates from upstream, answered a
\* second time.
C8_Witness ==
    /\ memo # NoMemo
    /\ pc = "done" /\ memo.request = request /\ memo.upstream = upstream
    /\ response.status = 200
    /\ HasCandidates /\ Len(Candidates) = 3
    /\ memo.response = response

====
